---- MODULE Spec2Model ----
(***************************************************************************)
(* Model of organizer.py: the categorizer (get_category), the hasher       *)
(* (calculate_hash), the path resolver (get_destination_path) and the      *)
(* orchestrator (organize_files) working on one folder.                    *)
(*                                                                         *)
(* A path is the sequence of its segments below the target folder, so the  *)
(* folder itself is <<>>.  A log line and a progress message are records   *)
(* holding the fields the f-string is built from.  The wall clock          *)
(* (time_taken_sec) is not modelled.  A move is atomic: it either puts the *)
(* file at its destination or raises and leaves it where it was.  The      *)
(* progress callback only observes: it records the event and returns.      *)
(***************************************************************************)
EXTENDS Integers, Sequences, FiniteSets, TLC

\* ---------------------------------------------------------------- bounds
MaxFiles == 3
MaxCalls == 2
MaxFaults == 1
MaxTotal == 50

\* ------------------------------------------------------------ categorizer
FILE_CATEGORIES ==
    << [cat |-> "Documents", exts |-> {".pdf", ".docx", ".txt", ".pptx", ".xlsx", ".csv"}],
       [cat |-> "Images",    exts |-> {".jpg", ".jpeg", ".png", ".gif", ".bmp", ".svg"}],
       [cat |-> "Videos",    exts |-> {".mp4", ".mkv", ".avi", ".mov"}],
       [cat |-> "Music",     exts |-> {".mp3", ".wav", ".aac", ".flac"}],
       [cat |-> "Archives",  exts |-> {".zip", ".rar", ".tar", ".gz"}] >>

\* str.lower() on the extensions the folders of the model contain
UpperCased == (".PNG" :> ".png") @@ (".TXT" :> ".txt")
Lower(s) == IF s \in DOMAIN UpperCased THEN UpperCased[s] ELSE s

\* mimetypes.guess_type("file" + ext)[0], split at "/"; <<>> is None
MimeTypes ==
    (".tiff" :> <<"image", "tiff">>) @@ (".ogg" :> <<"audio", "ogg">>) @@
    (".mpeg" :> <<"video", "mpeg">>) @@ (".xyz" :> <<"chemical", "x-xyz">>) @@
    (".py" :> <<"text", "x-python">>)
GuessType(ext) == IF ext \in DOMAIN MimeTypes THEN MimeTypes[ext] ELSE <<>>

\* str.capitalize() on the three media types
Capitalize(s) == CASE s = "image" -> "Image"
                   [] s = "video" -> "Video"
                   [] s = "audio" -> "Audio"
                   [] OTHER -> s

get_category(extension) ==
    LET ext  == Lower(extension)
        hits == {k \in 1..Len(FILE_CATEGORIES) : ext \in FILE_CATEGORIES[k].exts}
        mime == GuessType(ext)
    IN IF hits # {}
       THEN FILE_CATEGORIES[CHOOSE k \in hits : \A j \in hits : k <= j].cat
       ELSE IF Len(mime) > 0 /\ mime[1] \in {"image", "video", "audio"}
            THEN Capitalize(mime[1]) \o "s"
            ELSE "Others"

\* ----------------------------------------------------------------- hasher
\* The digest of a content; distinct contents have distinct digests.
\* "None" is the value returned when reading the file raises.
calculate_hash_empty(file, readable) ==
    IF readable THEN "md5-" \o ToString(file.content) ELSE "md5-of-nothing"

calculate_hash(file, readable) ==
    IF readable THEN "md5-" \o ToString(file.content) ELSE "None"

\* ---------------------------------------------------------- path resolver
Pad2Unpadded(m) == ToString(m)

Pad2(m) == IF m < 10 THEN "0" \o ToString(m) ELSE ToString(m)
StrfYear(mtime) == ToString(mtime.year)
StrfYearMonth(mtime) == ToString(mtime.year) \o "-" \o Pad2(mtime.month)

get_destination_path(file, category, organize_mode) ==
    IF organize_mode = "Category Only" THEN <<category>>
    ELSE IF organize_mode = "Category / Year" THEN <<category, StrfYear(file.mtime)>>
    ELSE IF organize_mode = "Category / Year-Month" THEN <<category, StrfYearMonth(file.mtime)>>
    ELSE <<category>>

\* ------------------------------------------------- int((i / total) * 100)
\* i / total and the product with 100 are IEEE-754 doubles: a 53-bit
\* mantissa held in five limbs of 13 bits (the first limb holds the leading
\* bit), value = mantissa * 2^(exp - 52), rounded to nearest, ties to even.
Limb == 2 ^ 13

RECURSIVE Shift(_, _, _)
Shift(a, t, s) == IF a >= t THEN [a |-> a, s |-> s] ELSE Shift(2 * a, t, s + 1)

RECURSIVE AddLow(_, _, _)
AddLow(limbs, k, c) ==
    IF c = 0 THEN limbs
    ELSE IF k = 1 THEN [limbs EXCEPT ![1] = limbs[1] + c]
    ELSE AddLow([limbs EXCEPT ![k] = (limbs[k] + c) % Limb], k - 1, (limbs[k] + c) \div Limb)

FloatDiv(i, t) ==
    LET n  == Shift(i, t, 0)
        r0 == n.a - t
        d1 == (r0 * Limb) \div t
        r1 == (r0 * Limb) % t
        d2 == (r1 * Limb) \div t
        r2 == (r1 * Limb) % t
        d3 == (r2 * Limb) \div t
        r3 == (r2 * Limb) % t
        d4 == (r3 * Limb) \div t
        r4 == (r3 * Limb) % t
        up == \/ 2 * r4 > t
              \/ 2 * r4 = t /\ d4 % 2 = 1
        q  == <<1, d1, d2, d3, d4>>
    IN [mant |-> IF up THEN AddLow(q, 5, 1) ELSE q, exp |-> 0 - n.s]

RECURSIVE BitLen(_)
BitLen(x) == IF x = 0 THEN 0 ELSE 1 + BitLen(x \div 2)

FloatMulInt(f, m) ==
    LET x4 == f.mant[5] * m
        x3 == f.mant[4] * m + x4 \div Limb
        x2 == f.mant[3] * m + x3 \div Limb
        x1 == f.mant[2] * m + x2 \div Limb
        x0 == f.mant[1] * m + x1 \div Limb
        p  == <<x0, x1 % Limb, x2 % Limb, x3 % Limb, x4 % Limb>>
        d  == BitLen(x0) - 1
        unit == 2 ^ d
        rem  == p[5] % unit
        kept == [p EXCEPT ![5] = p[5] - rem]
        up == /\ d > 0
              /\ \/ 2 * rem > unit
                 \/ 2 * rem = unit /\ (p[5] \div unit) % 2 = 1
    IN [mant |-> IF up THEN AddLow(kept, 5, unit) ELSE kept, exp |-> f.exp]

\* int() of a double in [0, 256): the bits above the binary point
FloatToInt(f) == f.mant[1] \div (2 ^ (0 - f.exp))

Percent(i, total) == FloatToInt(FloatMulInt(FloatDiv(i, total), 100))

\* ------------------------------------------------------------ the folder
Modes == {"Category Only", "Category / Year", "Category / Year-Month", "By Type"}
Excluded == {"app.py", "organizer.py"}
DuplicateDir == <<"Duplicates (Removed)">>
Faults == {"none", "stat", "mtime", "mkdir", "move"}

\* The files a folder of the model is made of.  base = "" is a file named
\* after its position in the folder.
FileKinds ==
    { [base |-> "",    ext |-> ".PNG", content |-> 1, mtime |-> [year |-> 2024, month |-> 7]],
      [base |-> "",    ext |-> ".ogg", content |-> 1, mtime |-> [year |-> 2025, month |-> 11]],
      [base |-> "",    ext |-> ".xyz", content |-> 2, mtime |-> [year |-> 2024, month |-> 7]],
      [base |-> "app", ext |-> ".py",  content |-> 1, mtime |-> [year |-> 2024, month |-> 7]] }

\* st_size: files of equal content have equal size
ContentSize(content) == 10 * content

MakeFile(k, kind) ==
    [name    |-> IF kind.base = "" THEN "f" \o ToString(k) \o kind.ext
                 ELSE kind.base \o kind.ext,
     ext     |-> kind.ext,
     content |-> kind.content,
     mtime   |-> kind.mtime]

\* The folders of up to n files.  A file named like the tool's own scripts is
\* listed first: it is filtered out of the listing wherever it stands.
Folders(n) ==
    { [k \in 1..Len(ks) |-> MakeFile(k, ks[k])] :
        ks \in { s \in UNION {[1..m -> FileKinds] : m \in 0..n} :
                   \A a \in 1..Len(s) : s[a].base # "" => a = 1 } }

VARIABLES
    files,             \* the regular files the folder held at the start, in iterdir order
    loc,               \* loc[k]: the directory files[k] is in now
    dirs,              \* the directories created under the folder
    organize_mode, check_duplicates, has_callback,   \* the arguments
    pc,                \* "idle", "loop" or "returned"
    calls,             \* calls of organize_files started so far
    listing,           \* the local `files`: indices of the eligible files
    i,                 \* files of the listing processed so far
    logs,              \* the local `logs`
    seen_hashes, duplicate_files, space_saved_bytes,
    analytics,
    events,            \* what the callback received during this call
    ret,               \* <<>> or <<the returned pair>>
    prev_ret,          \* what the previous call returned
    outcome,           \* per processed file of this call: hash and how the iteration ended
    faults             \* operations that failed so far: raises and failed reads

vars == <<files, loc, dirs, organize_mode, check_duplicates, has_callback, pc, calls,
          listing, i, logs, seen_hashes, duplicate_files, space_saved_bytes,
          analytics, events, ret, prev_ret, outcome, faults>>

EmptyDict == <<>>

InitCommon ==
    /\ loc = [k \in 1..Len(files) |-> <<>>]
    /\ dirs = {}
    /\ pc = "idle"
    /\ calls = 0
    /\ listing = <<>>
    /\ i = 0
    /\ logs = <<>>
    /\ seen_hashes = <<>>
    /\ duplicate_files = 0
    /\ space_saved_bytes = 0
    /\ analytics = [total_files |-> 0, total_size_bytes |-> 0, categories |-> <<>>,
                    duplicates_removed |-> 0, space_saved_bytes |-> 0, logs |-> <<>>]
    /\ events = <<>>
    /\ ret = <<>>
    /\ prev_ret = <<>>
    /\ outcome = <<>>
    /\ faults = 0

Init ==
    /\ files \in Folders(MaxFiles)
    /\ organize_mode \in Modes
    /\ check_duplicates \in BOOLEAN
    /\ has_callback \in BOOLEAN
    /\ InitCommon

\* ---------------------------------------------------------- orchestrator
MovedLine(name, dest_dir) == [kind |-> "Moved", name |-> name, detail |-> dest_dir]
DuplicateLine(name)  == [kind |-> "DUPLICATE REMOVED", name |-> name, detail |-> <<"Duplicates">>]
ErrorLineAsMoved(name, e) == [kind |-> "Moved", name |-> name, detail |-> <<e>>]
ErrorLine(name, e)   == [kind |-> "ERROR moving", name |-> name, detail |-> <<e>>]
WarningLine(name)    == [kind |-> "Warning", name |-> name,
                         detail |-> <<"Could not read hash", "Skipping duplicate check.">>]

Event(percent, kind, name, n, total) ==
    [percent |-> percent, kind |-> kind, name |-> name, i |-> n, total |-> total]

\* d.setdefault(key, 0); d[key] += 1
Incr(d, key) == IF key \in DOMAIN d THEN [d EXCEPT ![key] = @ + 1] ELSE (key :> 1) @@ d

\* log_entry at line 144: the value assigned last
LogEntry(assigned, line) == Append(assigned, line)[Len(assigned) + 1]

RememberNothing(seen, file_hash, name) == seen

\* seen_hashes[file_hash] = file.name
Remember(seen, file_hash, name) == (file_hash :> name) @@ seen

AppendLogNothing(a, line) == a

\* analytics["logs"].append(log_entry)
AppendLog(a, line) == [a EXCEPT !.logs = Append(@, line)]

\* the analytics dictionary of lines 82-90
NewAnalytics(total) ==
    [total_files |-> total, total_size_bytes |-> 0, categories |-> EmptyDict,
     duplicates_removed |-> 0, space_saved_bytes |-> 0, logs |-> <<>>]

EmptyFolderEventZero == Event(0, "No files to organize", "", 0, 0)

\* progress_callback(100, "No files to organize")
EmptyFolderEvent == Event(100, "No files to organize", "", 0, 0)

\* Path.mkdir(parents=True, exist_ok=True)
MkdirParents(ds, path) == ds \cup {SubSeq(path, 1, k) : k \in 1..Len(path)}

EligibleAnywhere == SelectSeq([k \in 1..Len(files) |-> k],
                              LAMBDA k : files[k].name \notin Excluded)

\* [f for f in folder.iterdir() if f.is_file() and f.name not in [...]]
Eligible == SelectSeq([k \in 1..Len(files) |-> k],
                      LAMBDA k : loc[k] = <<>> /\ files[k].name \notin Excluded)

\* lines 71-96: the set-up of a call and the return on an empty folder
Call ==
    /\ pc \in {"idle", "returned"}
    /\ calls < MaxCalls
    /\ calls' = calls + 1
    /\ prev_ret' = ret
    /\ listing' = Eligible
    /\ i' = 0
    /\ logs' = <<>>
    /\ seen_hashes' = EmptyDict
    /\ duplicate_files' = 0
    /\ space_saved_bytes' = 0
    /\ analytics' = NewAnalytics(Len(Eligible))
    /\ outcome' = <<>>
    /\ IF Len(Eligible) = 0
       THEN /\ events' = IF has_callback THEN <<EmptyFolderEvent>> ELSE <<>>
            /\ ret' = <<[logs |-> logs', analytics |-> analytics']>>
            /\ pc' = "returned"
       ELSE /\ events' = <<>>
            /\ ret' = <<>>
            /\ pc' = "loop"
    /\ UNCHANGED <<files, loc, dirs, organize_mode, check_duplicates, has_callback, faults>>

\* The end of one iteration: the assignments made before line 143, then the
\* append of the log line and the progress event.
EndIteration(a, line, newloc, newdirs, seen, dupf, saved, ev, out) ==
    /\ i' = i + 1
    /\ analytics' = AppendLog(a, line)
    /\ loc' = newloc
    /\ dirs' = newdirs
    /\ seen_hashes' = seen
    /\ duplicate_files' = dupf
    /\ space_saved_bytes' = saved
    /\ events' = IF has_callback THEN Append(events, ev) ELSE events
    /\ outcome' = Append(outcome, out)
    /\ faults' = faults + (IF out.how = "error" THEN 1 ELSE 0)
                        + (IF out.readable THEN 0 ELSE 1)
    /\ UNCHANGED <<files, organize_mode, check_duplicates, has_callback, pc, calls,
                   listing, logs, ret, prev_ret>>

\* lines 98-147: one iteration of the loop.  fault names the operation of
\* this iteration that raises, readable is FALSE when the content is read
\* for hashing and the read fails.  At most MaxFaults operations fail.
ProcessFile(fault, readable) ==
    /\ pc = "loop"
    /\ i < Len(listing)
    /\ ~readable => check_duplicates /\ fault # "stat"
    /\ faults + (IF fault = "none" THEN 0 ELSE 1) + (IF readable THEN 0 ELSE 1) <= MaxFaults
    /\ LET n     == i + 1
           total == Len(listing)
           k     == listing[n]
           file  == files[k]
           size  == ContentSize(file.content)
           a1    == [analytics EXCEPT !.total_size_bytes = @ + size]
           file_hash == calculate_hash(file, readable)
           hashed == check_duplicates /\ file_hash # "None"
           category == get_category(file.ext)
           a2    == [a1 EXCEPT !.categories = Incr(@, category)]
           dest_dir == get_destination_path(file, category, organize_mode)
           seen1 == IF hashed THEN Remember(seen_hashes, file_hash, file.name) ELSE seen_hashes
           processing == Event(Percent(n, total), "Processing", file.name, n, total)
           \* the values assigned to log_entry before line 128, in order
           assigned == IF check_duplicates /\ file_hash = "None"
                       THEN <<"", WarningLine(file.name)>>
                       ELSE <<"">>
           Out(h, how, e) == [file |-> k,
                              readable |-> readable,
                              hash |-> h, how |-> how, fault |-> e]
           shown == IF check_duplicates THEN file_hash ELSE "unchecked"
           is_dup == hashed /\ file_hash \in DOMAIN seen_hashes
       IN /\ fault = "mtime" => ~is_dup /\ organize_mode # "Category Only"
          /\ IF fault = "stat"
             THEN \* file.stat() raises at line 102
                  EndIteration(analytics, ErrorLine(file.name, fault), loc, dirs, seen_hashes,
                               duplicate_files, space_saved_bytes, processing,
                               Out("unchecked", "error", fault))
             ELSE IF is_dup
             THEN \* lines 110-124
                  IF fault = "mkdir"
                  THEN EndIteration(a1, ErrorLine(file.name, fault), loc, dirs, seen_hashes,
                                    duplicate_files + 1, space_saved_bytes + size, processing,
                                    Out(shown, "error", fault))
                  ELSE IF fault = "move"
                  THEN EndIteration(a1, ErrorLine(file.name, fault), loc,
                                    dirs \cup {DuplicateDir}, seen_hashes,
                                    duplicate_files + 1, space_saved_bytes + size, processing,
                                    Out(shown, "error", fault))
                  ELSE EndIteration(a1, DuplicateLine(file.name),
                                    [loc EXCEPT ![k] = DuplicateDir],
                                    dirs \cup {DuplicateDir}, seen_hashes,
                                    duplicate_files + 1, space_saved_bytes + size,
                                    Event(Percent(n, total), "DUPLICATE REMOVED", file.name, 0, 0),
                                    Out(shown, "duplicate", "none"))
             ELSE \* lines 108-109 or 125-126, then lines 128-147
                  IF fault = "mtime"
                  THEN EndIteration(a2, LogEntry(assigned, ErrorLine(file.name, fault)), loc, dirs, seen1,
                                    duplicate_files, space_saved_bytes, processing,
                                    Out(shown, "error", fault))
                  ELSE IF fault = "mkdir"
                  THEN EndIteration(a2, LogEntry(assigned, ErrorLine(file.name, fault)), loc, dirs, seen1,
                                    duplicate_files, space_saved_bytes, processing,
                                    Out(shown, "error", fault))
                  ELSE IF fault = "move"
                  THEN EndIteration(a2, LogEntry(assigned, ErrorLine(file.name, fault)), loc,
                                    MkdirParents(dirs, dest_dir), seen1,
                                    duplicate_files, space_saved_bytes, processing,
                                    Out(shown, "error", fault))
                  ELSE EndIteration(a2, LogEntry(assigned, MovedLine(file.name, dest_dir)),
                                    [loc EXCEPT ![k] = dest_dir],
                                    MkdirParents(dirs, dest_dir), seen1,
                                    duplicate_files, space_saved_bytes, processing,
                                    Out(shown, "moved", "none"))

\* lines 149-158: the final update of the report and the return
Finish ==
    /\ pc = "loop"
    /\ i = Len(listing)
    /\ analytics' = [analytics EXCEPT !.duplicates_removed = duplicate_files,
                                      !.space_saved_bytes = space_saved_bytes]
    /\ events' = IF has_callback
                 THEN Append(events, Event(100, "Completed", "", 0, analytics.total_files))
                 ELSE events
    /\ ret' = <<[logs |-> analytics'.logs, analytics |-> analytics']>>
    /\ pc' = "returned"
    /\ UNCHANGED <<files, loc, dirs, organize_mode, check_duplicates, has_callback, calls,
                   listing, i, logs, seen_hashes, duplicate_files, space_saved_bytes,
                   prev_ret, outcome, faults>>

Next ==
    \/ Call
    \/ \E fault \in Faults, readable \in BOOLEAN : ProcessFile(fault, readable)
    \/ Finish

Spec == Init /\ [][Next]_vars

\* A folder of up to MaxTotal files of one kind, organized with a callback,
\* without the duplicate check, with no operation raising.
LargeKind == [base |-> "", ext |-> ".txt", content |-> 1,
              mtime |-> [year |-> 2025, month |-> 11]]

InitLarge ==
    /\ files \in {[k \in 1..n |-> MakeFile(k, LargeKind)] : n \in 1..MaxTotal}
    /\ organize_mode = "Category Only"
    /\ check_duplicates = FALSE
    /\ has_callback = TRUE
    /\ InitCommon

NextLarge ==
    \/ Call
    \/ ProcessFile("none", TRUE)
    \/ Finish

SpecLarge == InitLarge /\ [][NextLarge]_vars

\* ------------------------------------------------------------- properties
TypeOK ==
    /\ pc \in {"idle", "loop", "returned"}
    /\ i \in 0..Len(listing)
    /\ calls \in 0..MaxCalls
    /\ faults \in 0..MaxFaults

Processed == 1..Len(outcome)
FileAt(k) == files[listing[k]]
Returned == pc = "returned"
Report == ret[1].analytics
CategorizedDir(f) == get_destination_path(f, get_category(f.ext), organize_mode)
SameReadableContent(a, b) ==
    /\ a < b
    /\ outcome[a].readable /\ outcome[a].fault # "stat"
    /\ outcome[b].readable /\ outcome[b].fault # "stat"
    /\ FileAt(a).content = FileAt(b).content
NoError(r) == r # <<>> /\ \A k \in 1..Len(r[1].logs) : r[1].logs[k].kind # "ERROR moving"
ZeroReturn ==
    <<[logs |-> <<>>,
       analytics |-> [total_files |-> 0, total_size_bytes |-> 0, categories |-> <<>>,
                      duplicates_removed |-> 0, space_saved_bytes |-> 0, logs |-> <<>>]]>>

DuplicatePairOutcome(a, b) ==
    /\ loc[listing[a]] = CategorizedDir(FileAt(a))
    /\ loc[listing[b]] = DuplicateDir
    /\ Report.duplicates_removed = 1
    /\ Report.space_saved_bytes = ContentSize(FileAt(b).content)

\* C1 as stated: with check_duplicates, of any two eligible files with
\* identical readable content the earlier ends in its categorized directory
\* and the later in "Duplicates (Removed)", and the report counts one
\* duplicate of the later file's size.
C1_AnyTwoIdentical ==
    (Returned /\ check_duplicates /\ Len(listing) > 0) =>
        \A a, b \in Processed : SameReadableContent(a, b) => DuplicatePairOutcome(a, b)

\* C1 amended: the same outcome when these two are the only eligible files
\* whose readable contents coincide and processing neither of them raises.
C1_OnlyPairNoError ==
    (Returned /\ check_duplicates /\ Len(listing) > 0) =>
        \A a, b \in Processed :
            ( /\ SameReadableContent(a, b)
              /\ outcome[a].how # "error" /\ outcome[b].how # "error"
              /\ \A c, d \in Processed : SameReadableContent(c, d) => c = a /\ d = b )
            => DuplicatePairOutcome(a, b)

C1_Witness ==
    /\ Returned /\ check_duplicates /\ Len(listing) = 3
    /\ \E a, b \in Processed :
          /\ SameReadableContent(a, b)
          /\ FileAt(a).ext # FileAt(b).ext
          /\ \A c, d \in Processed : SameReadableContent(c, d) => c = a /\ d = b
          /\ outcome[a].how = "moved" /\ outcome[b].how = "duplicate"
          /\ loc[listing[b]] = DuplicateDir

\* C2 as stated: a second call on the same folder always finds no eligible
\* file, moves nothing and returns the zero report with an empty log.
C2_SecondRunAlwaysEmpty ==
    [][calls' >= 2 =>
        /\ listing' = <<>>
        /\ loc' = loc /\ dirs' = dirs
        /\ pc' = "returned"
        /\ ret' = ZeroReturn]_vars

\* C2 amended: a call that follows a call whose log holds no ERROR line
\* finds no eligible file, moves nothing and returns the zero report with
\* an empty log.
C2_SecondRunAfterCleanRun ==
    [][(calls' >= 2 /\ NoError(prev_ret')) =>
        /\ listing' = <<>>
        /\ loc' = loc /\ dirs' = dirs
        /\ pc' = "returned"
        /\ ret' = ZeroReturn]_vars

C2_Witness ==
    /\ calls = 2 /\ Returned /\ listing = <<>>
    /\ NoError(prev_ret) /\ Len(prev_ret[1].logs) = 3
    /\ \E k \in 1..3 : prev_ret[1].logs[k].kind = "DUPLICATE REMOVED"

\* C3: a file whose stat, mkdir or move raised stays in the folder and has
\* an "ERROR moving" line naming it and the reason at its place in the log;
\* the call returns a pair only after every listed file has been processed.
C3_FailureIsolated ==
    /\ \A k \in Processed : outcome[k].how = "error" =>
          /\ loc[listing[k]] = <<>>
          /\ analytics.logs[k].kind = "ERROR moving"
          /\ analytics.logs[k].name = FileAt(k).name
          /\ analytics.logs[k].detail = <<outcome[k].fault>>
    /\ pc = "loop" => ret = <<>>
    /\ (Returned /\ calls > 0) =>
          /\ Len(ret) = 1
          /\ Len(outcome) = Len(listing)
          /\ Len(ret[1].logs) = Len(listing)

C3_Witness ==
    /\ Returned /\ Len(listing) = 3
    /\ outcome[1].how = "error" /\ outcome[1].fault = "mkdir"
    /\ outcome[2].how = "moved" /\ outcome[3].how = "moved"
    /\ loc[listing[1]] = <<>>

\* C4 as stated: with check_duplicates, every file whose hash is absent has
\* a warning line in the returned log.
C4_WarningLogged ==
    (Returned /\ check_duplicates /\ calls > 0) =>
        \A k \in Processed : outcome[k].hash = "None" =>
            \E j \in 1..Len(ret[1].logs) :
                /\ ret[1].logs[j].kind = "Warning"
                /\ ret[1].logs[j].name = FileAt(k).name

\* C5: with check_duplicates, a file whose content cannot be read is never
\* classified or moved as a duplicate, is moved to its categorized directory
\* unless an operation raises, and leaves no entry in seen_hashes: every
\* entry, and every duplicate, goes back to a file whose content was read.
C5_UnreadableIsUnique ==
    check_duplicates =>
        /\ \A k \in Processed : ~outcome[k].readable =>
              /\ outcome[k].how # "duplicate"
              /\ loc[listing[k]] # DuplicateDir
              /\ outcome[k].fault = "none" =>
                    /\ outcome[k].how = "moved"
                    /\ loc[listing[k]] = CategorizedDir(FileAt(k))
        /\ \A h \in DOMAIN seen_hashes :
              \E k \in Processed :
                  /\ outcome[k].readable /\ outcome[k].fault # "stat"
                  /\ FileAt(k).name = seen_hashes[h]
        /\ \A k \in Processed : outcome[k].how = "duplicate" =>
              \E j \in 1..(k - 1) :
                  /\ outcome[j].readable /\ outcome[j].fault # "stat"
                  /\ FileAt(j).content = FileAt(k).content

C5_Witness ==
    /\ check_duplicates /\ Returned /\ Len(listing) = 3
    /\ outcome[1].readable /\ ~outcome[2].readable /\ outcome[3].readable
    /\ FileAt(1).content = FileAt(2).content
    /\ FileAt(2).content = FileAt(3).content
    /\ outcome[1].how = "moved" /\ outcome[2].how = "moved"
    /\ outcome[3].how = "duplicate"
    /\ seen_hashes[outcome[3].hash] = FileAt(1).name

\* C6 as stated: with a callback, the percents are in 0..100 and never
\* decrease, the i-th of total files gives exactly one event whose percent
\* is floor(i / total * 100), and the last event of the call reports 100.
C6_Progress ==
    (has_callback /\ pc # "idle") =>
        /\ \A k \in 1..Len(events) : events[k].percent \in 0..100
        /\ \A k \in 1..(Len(events) - 1) : events[k].percent <= events[k + 1].percent
        /\ Len(events) = i + (IF Returned THEN 1 ELSE 0)
        /\ \A k \in 1..i : events[k].percent = (k * 100) \div Len(listing)
        /\ Returned => events[Len(events)].percent = 100

\* C7: a call that finds no eligible file gives the callback the single
\* event (100, "No files to organize"), moves nothing, creates no directory
\* and returns an empty log with the zero report.
C7_EmptyFolder ==
    [][(calls' # calls /\ listing' = <<>>) =>
        /\ has_callback =>
              events' = <<[percent |-> 100, kind |-> "No files to organize",
                           name |-> "", i |-> 0, total |-> 0]>>
        /\ ~has_callback => events' = <<>>
        /\ loc' = loc /\ dirs' = dirs
        /\ pc' = "returned"
        /\ ret' = ZeroReturn]_vars

C7_Witness ==
    /\ calls = 1 /\ Returned /\ listing = <<>>
    /\ Len(files) = 1 /\ files[1].name = "app.py"
    /\ has_callback /\ Len(events) = 1
    /\ loc[1] = <<>>

TwoDigits == <<"01", "02", "03", "04", "05", "06", "07", "08", "09", "10", "11", "12">>

DestinationShape(k, year_month_segments) ==
    LET f == FileAt(k)
        p == loc[listing[k]]
    IN /\ p[1] = get_category(f.ext)
       /\ organize_mode = "Category Only" => Len(p) = 1
       /\ organize_mode = "Category / Year" =>
             /\ Len(p) = 2
             /\ p[2] = ToString(f.mtime.year)
       /\ organize_mode = "Category / Year-Month" =>
             /\ Len(p) = year_month_segments
             /\ p[2] = ToString(f.mtime.year) \o "-" \o TwoDigits[f.mtime.month]
             /\ Len(p[2]) = 7
       /\ organize_mode \notin {"Category Only", "Category / Year", "Category / Year-Month"} =>
             p = <<get_category(f.ext)>>

\* C8 as stated: the destination of a moved file has 1, 2 or 3 segments
\* below the folder for Category Only, Category / Year, Category /
\* Year-Month, the date segment is the year or the year and 2-digit month
\* of the modification time, and any other mode gives folder/category.
C8_ThreeSegments ==
    \A k \in Processed : outcome[k].how = "moved" => DestinationShape(k, 3)

\* C8 amended: as stated, but Category / Year-Month gives 2 segments, the
\* category and the single segment <year>-<2-digit month>.
C8_TwoSegments ==
    \A k \in Processed : outcome[k].how = "moved" => DestinationShape(k, 2)

C8_Witness ==
    /\ organize_mode = "Category / Year-Month"
    /\ \E k \in Processed :
          /\ outcome[k].how = "moved"
          /\ loc[listing[k]] = <<"Images", "2024-07">>

RECURSIVE SumSizes(_)
SumSizes(ks) ==
    IF ks = {} THEN 0
    ELSE LET k == CHOOSE x \in ks : TRUE
         IN ContentSize(FileAt(k).content) + SumSizes(ks \ {k})

\* C9 as stated: at return duplicates_removed is the number of files moved
\* into "Duplicates (Removed)", space_saved_bytes the sum of their sizes,
\* and each category's count the number of files moved into that category.
C9_ReportExact ==
    (Returned /\ Len(listing) > 0) =>
        LET removed == {k \in Processed : outcome[k].how = "duplicate"}
            movedTo(c) == {k \in Processed : /\ outcome[k].how = "moved"
                                             /\ get_category(FileAt(k).ext) = c}
            cats == DOMAIN Report.categories \cup {get_category(FileAt(k).ext) : k \in Processed}
        IN /\ Report.duplicates_removed = Cardinality(removed)
           /\ Report.space_saved_bytes = SumSizes(removed)
           /\ \A c \in cats :
                 (IF c \in DOMAIN Report.categories THEN Report.categories[c] ELSE 0)
                     = Cardinality(movedTo(c))

\* C10: the returned log is report.logs, and once k files have been
\* processed the log holds k lines, the k-th naming the k-th file as moved,
\* removed as duplicate or failed.
C10_OneLinePerFile ==
    /\ (Returned /\ calls > 0) => ret[1].logs = ret[1].analytics.logs
    /\ pc # "idle" =>
          /\ Len(analytics.logs) = i
          /\ \A k \in 1..i :
                /\ analytics.logs[k].name = FileAt(k).name
                /\ analytics.logs[k].kind \in {"Moved", "DUPLICATE REMOVED", "ERROR moving"}

C10_Witness ==
    /\ Returned /\ Len(listing) = 3 /\ Len(ret[1].logs) = 3
    /\ ret[1].logs[1].kind = "Moved"
    /\ ret[1].logs[2].kind = "DUPLICATE REMOVED"
    /\ ret[1].logs[3].kind = "ERROR moving"
====
